---- MODULE Spec2Model ----
(***************************************************************************)
(* The jazz network explorer.                                              *)
(*                                                                         *)
(* src/src/jazz-network-explorer.tsx: evidence/filter policy, topMatches,  *)
(* MinHeap, shortestPath, buildEgonet, buildPathSubgraph and the derived   *)
(* view `active` that the component recomputes from its parameters.        *)
(* src/netlify/functions/verifyEdge.js: the throttle in front of every     *)
(* MusicBrainz request and the file cache of the handler.                  *)
(*                                                                         *)
(* Specifications.                                                         *)
(*   Spec          one evaluation of a derived view on a snapshot          *)
(*   SpecUI        the component: parameter changes on a loaded snapshot   *)
(*   SpecDangling  Spec on snapshots with edges to ids no node has         *)
(*   SpecMatch     topMatches on named nodes                               *)
(*   SpecHeap      MinHeap under push and pop                              *)
(*   SpecLoop      the main loop of shortestPath, one iteration a step     *)
(*   SpecThrottle  concurrent handler invocations sharing lastCallMs       *)
(*   SpecCache     the verifyEdge handler and its file cache               *)
(* Each specification uses its own variables and leaves the others at      *)
(* Null.                                                                   *)
(*                                                                         *)
(* Ids.  Node ids are opaque strings.  The source tests ids for truthiness *)
(* (while (cur), || null) and joins them into keys (`${a}__${b}`); both    *)
(* are modelled as the source computes them, see truthy and hopKey.        *)
(*                                                                         *)
(* Numbers.  Edge costs are 1/(s+1) + hopPenalty.  They are kept exact by  *)
(* scaling with CostScale, a multiple of every denominator s+1 that can    *)
(* occur and of 4 (hopPenalty is given in quarters, 0.25 being 1).         *)
(***************************************************************************)
EXTENDS Integers, Sequences, FiniteSets, TLC

VARIABLES
    allNodes,   \* the snapshot's node records, in document order
    allEdges,   \* the snapshot's edge records, in document order
    query,      \* the parameters the derived view was last computed from
    active,     \* the derived view: [nodes, edges, path]
    matches,    \* topMatches: the list last returned
    heap,       \* MinHeap: the array `a`
    pending,    \* MinHeap: entries pushed and not yet popped (history)
    popped,     \* MinHeap: what the last operation returned
    search,     \* shortestPath: dist, prev, heap, visited of the main loop
    order,      \* shortestPath: the nodes finalized so far, in order (history)
    now,        \* verifyEdge: Date.now()
    lastCallMs, \* verifyEdge: the module-level timestamp of throttle
    pc,         \* verifyEdge: where each running fetchJson call stands
    requests,   \* verifyEdge: start times of the outbound requests (history)
    cache,      \* verifyEdge: the cache directory, file name -> content
    computed,   \* verifyEdge: the 200 results computed so far (history)
    response    \* verifyEdge: the last response of the handler

engineVars == <<allNodes, allEdges, query, active>>
matchVars == <<matches>>
heapVars == <<heap, pending, popped>>
loopVars == <<search, order>>
throttleVars == <<now, lastCallMs, pc, requests>>
cacheVars == <<cache, computed, response>>

vars == <<engineVars, matchVars, heapVars, loopVars, throttleVars, cacheVars>>

(***************************************************************************)
(* Bounds of the model                                                     *)
(***************************************************************************)
MaxWeight == 1
MaxMinWeight == 2

(***************************************************************************)
(* Entity model                                                            *)
(***************************************************************************)
EvidenceMode == {"instr", "credit", "both"}
ViewMode == {"egonet", "path"}

\* null / undefined of the source; no node id equals it
Null == "<null>"

NodeDatum(id) == [id |-> id]

EdgeDatum(idx, source, target, w_instr, w_credit) ==
    [id |-> idx, source |-> source, target |-> target,
     w_instr |-> w_instr, w_credit |-> w_credit]

Range(s) == {s[i] : i \in 1..Len(s)}

\* allNodes.map((n) => n.id)
NodeIds(nodes) == {nodes[i].id : i \in 1..Len(nodes)}

(***************************************************************************)
(* Evidence and filter policy                                              *)
(***************************************************************************)
displayStrength(e, mode) ==
    IF mode = "instr" THEN e.w_instr
    ELSE IF mode = "credit" THEN e.w_credit
    ELSE e.w_instr + e.w_credit

\* mutant: mode "both" counts instrument evidence once, as displayStrength
costStrengthAsDisplay(e, mode) ==
    IF mode = "instr" THEN e.w_instr
    ELSE IF mode = "credit" THEN e.w_credit
    ELSE e.w_instr + e.w_credit

costStrength(e, mode) ==
    IF mode = "instr" THEN e.w_instr
    ELSE IF mode = "credit" THEN e.w_credit
    ELSE e.w_instr * 2 + e.w_credit

\* mutant: the threshold is exclusive
edgeAllowedStrict(e, mode, minW) == displayStrength(e, mode) > minW

\* mutant: the comparison is turned round
edgeAllowedAtMost(e, mode, minW) == displayStrength(e, mode) <= minW

\* mutant: the threshold is off by one, an edge one below it passes
edgeAllowedOffByOne(e, mode, minW) == displayStrength(e, mode) + 1 >= minW

edgeAllowed(e, mode, minW) == displayStrength(e, mode) >= minW

(***************************************************************************)
(* Exact cost arithmetic                                                   *)
(***************************************************************************)
RECURSIVE Gcd(_, _)
Gcd(a, b) == IF b = 0 THEN a ELSE Gcd(b, a % b)

RECURSIVE LcmUpTo(_)
LcmUpTo(n) == IF n <= 1 THEN 1
              ELSE LET l == LcmUpTo(n - 1) IN (l * n) \div Gcd(l, n)

\* largest s + 1: costStrength is at most 3 * MaxWeight (mode "both")
CostScale == 4 * LcmUpTo(3 * MaxWeight + 1)

\* Number.POSITIVE_INFINITY: above every sum of edge costs of the model
Infinity == CostScale * 1000

\* const cost = 1 / (s + 1) + hopPenalty    (hopPenalty hp in quarters)
edgeCost(e, mode, hp) ==
    CostScale \div (costStrength(e, mode) + 1) + hp * (CostScale \div 4)

(***************************************************************************)
(* class MinHeap: the array a, JavaScript index i being a[i + 1]           *)
(***************************************************************************)
Swap(a, i, j) == [a EXCEPT ![i] = a[j], ![j] = a[i]]

RECURSIVE bubbleUp(_, _)
bubbleUp(a, i) ==
    IF i > 1
    THEN LET p == ((i - 2) \div 2) + 1
         IN IF a[p].key <= a[i].key THEN a
            ELSE bubbleUp(Swap(a, p, i), p)
    ELSE a

RECURSIVE bubbleDown(_, _)
bubbleDown(a, i) ==
    LET n == Len(a)
        l == 2 * i
        r == l + 1
        m1 == IF l <= n /\ a[l].key < a[i].key THEN l ELSE i
        m == IF r <= n /\ a[r].key < a[m1].key THEN r ELSE m1
    IN IF m = i THEN a ELSE bubbleDown(Swap(a, m, i), m)

\* mutant: the new entry stays at the end of the array
pushNoBubbleUp(a, x) == Append(a, x)

push(a, x) == bubbleUp(Append(a, x), Len(a) + 1)

\* pop(): the entry returned (a non-empty heap) and the array left
popTop(a) == a[1]

popRest(a) ==
    LET last == a[Len(a)]
        rest == SubSeq(a, 1, Len(a) - 1)
    IN IF Len(rest) > 0 THEN bubbleDown([rest EXCEPT ![1] = last], 1) ELSE rest

(***************************************************************************)
(* Map<string, ...>: get of a missing key is undefined, set may add a key  *)
(***************************************************************************)
MapGet(m, k, dflt) == IF k \in DOMAIN m THEN m[k] ELSE dflt

MapSet(m, k, v) == [x \in (DOMAIN m) \cup {k} |-> IF x = k THEN v ELSE m[x]]

\* JavaScript truthiness of a value that is a string, null or undefined
truthy(x) == x # Null /\ x # ""

(***************************************************************************)
(* shortestPath                                                            *)
(***************************************************************************)
\* lines 177-183: the adjacency lists, edges[i..] still to be read
RECURSIVE buildAdj(_, _, _, _, _, _)
buildAdj(adj, edges, i, mode, minW, hp) ==
    IF i > Len(edges) THEN adj
    ELSE LET e == edges[i]
             cost == edgeCost(e, mode, hp)
             adj1 == IF e.source \in DOMAIN adj
                     THEN [adj EXCEPT ![e.source] =
                               Append(@, [to |-> e.target, cost |-> cost])]
                     ELSE adj
             adj2 == IF e.target \in DOMAIN adj1
                     THEN [adj1 EXCEPT ![e.target] =
                               Append(@, [to |-> e.source, cost |-> cost])]
                     ELSE adj1
         IN IF ~edgeAllowed(e, mode, minW)
            THEN buildAdj(adj, edges, i + 1, mode, minW, hp)
            ELSE buildAdj(adj2, edges, i + 1, mode, minW, hp)

\* lines 207-215: relax the neighbours nbrs[i..] of the node cur
RECURSIVE relax(_, _, _, _, _)
relax(st, cur, curDist, nbrs, i) ==
    IF i > Len(nbrs) THEN st
    ELSE LET to == nbrs[i].to
             nd == curDist + nbrs[i].cost
         IN IF to \in st.visited
            THEN relax(st, cur, curDist, nbrs, i + 1)
            ELSE IF nd < MapGet(st.dist, to, Infinity)
                 THEN relax([st EXCEPT
                               !.dist = MapSet(st.dist, to, nd),
                               !.prev = MapSet(st.prev, to, cur),
                               !.heap = push(st.heap, [id |-> to, key |-> nd])],
                            cur, curDist, nbrs, i + 1)
                 ELSE relax(st, cur, curDist, nbrs, i + 1)

\* lines 185-196: the search state before the loop
searchInit(nodes, start) ==
    [dist |-> MapSet([n \in NodeIds(nodes) |-> Infinity], start, 0),
     prev |-> [n \in NodeIds(nodes) |-> Null],
     heap |-> push(<<>>, [id |-> start, key |-> 0]),
     visited |-> {},
     stopped |-> FALSE]

\* mutant: line 203 is missing, the loop goes on past endId
loopStepNoBreak(st, adj, end) ==
    LET cur == popTop(st.heap)
        st1 == [st EXCEPT !.heap = popRest(st.heap)]
        st2 == [st1 EXCEPT !.visited = @ \cup {cur.id}]
    IN IF cur.id \in st.visited THEN st1
       ELSE relax(st2, cur.id, MapGet(st2.dist, cur.id, Infinity),
                  MapGet(adj, cur.id, <<>>), 1)

\* lines 199-215: one iteration of the main loop (the heap is not empty)
loopStep(st, adj, end) ==
    LET cur == popTop(st.heap)
        st1 == [st EXCEPT !.heap = popRest(st.heap)]
        st2 == [st1 EXCEPT !.visited = @ \cup {cur.id}]
    IN IF cur.id \in st.visited THEN st1
       ELSE IF cur.id = end THEN [st2 EXCEPT !.stopped = TRUE]
       ELSE relax(st2, cur.id, MapGet(st2.dist, cur.id, Infinity),
                  MapGet(adj, cur.id, <<>>), 1)

\* lines 198-216: while (heap.size) { ... break }
RECURSIVE searchLoop(_, _, _)
searchLoop(st, adj, end) ==
    IF st.stopped \/ Len(st.heap) = 0 THEN st
    ELSE searchLoop(loopStep(st, adj, end), adj, end)

\* lines 220-225: while (cur) { path.push(cur); cur = prev.get(cur) || null }
RECURSIVE walkBack(_, _, _)
walkBack(cur, prev, path) ==
    IF truthy(cur)
    THEN LET p == MapGet(prev, cur, Null)
         IN walkBack(IF truthy(p) THEN p ELSE Null, prev, Append(path, cur))
    ELSE path

reverse(s) == [i \in 1..Len(s) |-> s[Len(s) + 1 - i]]

\* lines 218-227: the result, read off the search state st after the loop
pathOrEmpty(path, start) ==
    IF path # <<>> /\ path[1] = start THEN path ELSE <<>>

resultOf(st, start, end) ==
    IF MapGet(st.dist, end, Infinity) = Infinity THEN <<>>
    ELSE pathOrEmpty(reverse(walkBack(end, st.prev, <<>>)), start)

\* mutant: line 172 is missing, the search runs for startId = endId too
shortestPathNoShortcut(nodes, edges, start, end, mode, minW, hp) ==
    IF start \notin NodeIds(nodes) \/ end \notin NodeIds(nodes) THEN <<>>
    ELSE resultOf(searchLoop(searchInit(nodes, start),
                             buildAdj([n \in NodeIds(nodes) |-> <<>>],
                                      edges, 1, mode, minW, hp),
                             end),
                  start, end)

\* mutant: lines 171 and 172 are exchanged
shortestPathShortcutFirst(nodes, edges, start, end, mode, minW, hp) ==
    IF start = end THEN <<start>>
    ELSE IF start \notin NodeIds(nodes) \/ end \notin NodeIds(nodes) THEN <<>>
    ELSE resultOf(searchLoop(searchInit(nodes, start),
                             buildAdj([n \in NodeIds(nodes) |-> <<>>],
                                      edges, 1, mode, minW, hp),
                             end),
                  start, end)

shortestPath(nodes, edges, start, end, mode, minW, hp) ==
    IF start \notin NodeIds(nodes) \/ end \notin NodeIds(nodes) THEN <<>>
    ELSE IF start = end THEN <<start>>
    ELSE resultOf(searchLoop(searchInit(nodes, start),
                             buildAdj([n \in NodeIds(nodes) |-> <<>>],
                                      edges, 1, mode, minW, hp),
                             end),
                  start, end)

(***************************************************************************)
(* buildEgonet                                                             *)
(***************************************************************************)
\* lines 231-236: the ids collected from edges[i..]
RECURSIVE egoNeigh(_, _, _, _, _, _)
egoNeigh(neigh, edges, i, focus, mode, minW) ==
    IF i > Len(edges) THEN neigh
    ELSE LET e == edges[i]
             n1 == IF e.source = focus THEN neigh \cup {e.target} ELSE neigh
             n2 == IF e.target = focus THEN n1 \cup {e.source} ELSE n1
         IN IF ~edgeAllowed(e, mode, minW)
            THEN egoNeigh(neigh, edges, i + 1, focus, mode, minW)
            ELSE egoNeigh(n2, edges, i + 1, focus, mode, minW)

\* lines 237-240, neigh being the set collected; neighSet, the ids of the
\* nodes kept, is neigh \cap NodeIds(nodes)
egonetOf(nodes, edges, neigh, mode, minW) ==
    [nodes |-> SelectSeq(nodes, LAMBDA n : n.id \in neigh),
     edges |-> SelectSeq(edges, LAMBDA e : /\ e.source \in neigh \cap NodeIds(nodes)
                                           /\ e.target \in neigh \cap NodeIds(nodes)
                                           /\ edgeAllowed(e, mode, minW))]

\* mutant: the neighbour set starts empty, not as {focusId}
buildEgonetNoSeed(nodes, edges, focus, mode, minW) ==
    egonetOf(nodes, edges, egoNeigh({}, edges, 1, focus, mode, minW),
             mode, minW)

buildEgonet(nodes, edges, focus, mode, minW) ==
    egonetOf(nodes, edges, egoNeigh({focus}, edges, 1, focus, mode, minW),
             mode, minW)

(***************************************************************************)
(* buildPathSubgraph                                                       *)
(***************************************************************************)
\* the key `${a}__${b}` of the hop set
hopKey(a, b) == a \o "__" \o b

\* lines 247-253
hopSetOf(path) ==
    UNION {{hopKey(path[i], path[i + 1]), hopKey(path[i + 1], path[i])} :
             i \in 1..(Len(path) - 1)}

\* lines 245 and 255, hopSet being the keys collected
pathSubgraphOf(nodes, edges, set, hopSet, mode, minW) ==
    [nodes |-> SelectSeq(nodes, LAMBDA n : n.id \in set),
     edges |-> SelectSeq(edges, LAMBDA e : /\ edgeAllowed(e, mode, minW)
                                           /\ hopKey(e.source, e.target) \in hopSet)]

buildPathSubgraph(nodes, edges, path, mode, minW) ==
    pathSubgraphOf(nodes, edges, Range(path), hopSetOf(path), mode, minW)

(***************************************************************************)
(* Snapshots.  A layout fixes the node ids and the endpoints of the edges, *)
(* in document order; every edge takes every pair of weights.  Ids are     *)
(* opaque strings: the empty string and ids holding "__" are among them.   *)
(***************************************************************************)
Layouts ==
    { [ids |-> <<>>, ends |-> <<>>],
      [ids |-> <<"a", "b">>,
       ends |-> << <<"a", "a">>, <<"b", "a">> >>],
      [ids |-> <<"a", "", "c">>,
       ends |-> << <<"a", "">>, <<"c", "">> >>],
      [ids |-> <<"a", "b", "c">>,
       ends |-> << <<"a", "b">>, <<"c", "b">>, <<"a", "c">> >>],
      [ids |-> <<"a__b", "a", "b__a">>,
       ends |-> << <<"a__b", "a">>, <<"a", "b__a">>, <<"b__a", "a__b">> >>],
      [ids |-> <<"a", "b", "">>,
       ends |-> << <<"a", "b">>, <<"b", "a">>, <<"b", "">> >>] }

Weights == 0..MaxWeight

MinWeights == 0..MaxMinWeight

\* hopPenalty in quarters: 0 and the default 0.25
HopPenalties == {0, 1}

\* an id that no snapshot holds
AbsentId == "zz"

QueryIds == NodeIds(allNodes) \cup {AbsentId}

NoQuery == [view |-> "none"]

NoView == [nodes |-> <<>>, edges |-> <<>>, path |-> <<>>]

\* the variables a specification does not use stay at Null
MatchIdle == matches = Null
HeapIdle == heap = Null /\ pending = Null /\ popped = Null
LoopIdle == search = Null /\ order = Null
ThrottleIdle == now = Null /\ lastCallMs = Null /\ pc = Null /\ requests = Null
CacheIdle == cache = Null /\ computed = Null /\ response = Null
EngineIdle == allNodes = Null /\ allEdges = Null /\ query = Null /\ active = Null

Init ==
    /\ \E L \in Layouts :
       \E wi, wc \in [1..Len(L.ends) -> Weights] :
          /\ allNodes = [i \in 1..Len(L.ids) |-> NodeDatum(L.ids[i])]
          /\ allEdges = [i \in 1..Len(L.ends) |->
                           EdgeDatum(i, L.ends[i][1], L.ends[i][2], wi[i], wc[i])]
    /\ query = NoQuery
    /\ active = NoView
    /\ MatchIdle /\ HeapIdle /\ LoopIdle /\ ThrottleIdle /\ CacheIdle

\* lines 361-381: the memo `active`, { ...ego, path: [] } and { ...sub, path }
withPath(sub, path) == [nodes |-> sub.nodes, edges |-> sub.edges, path |-> path]

egonetView(nodes, edges, f, mode, minW) ==
    withPath(buildEgonet(nodes, edges, f, mode, minW), <<>>)

pathViewOf(nodes, edges, path, mode, minW) ==
    withPath(buildPathSubgraph(nodes, edges, path, mode, minW), path)

pathView(nodes, edges, s, t, mode, minW, hp) ==
    pathViewOf(nodes, edges, shortestPath(nodes, edges, s, t, mode, minW, hp),
               mode, minW)

EgonetView(f, mode, minW) ==
    /\ query' = [view |-> "egonet", focusId |-> f, mode |-> mode,
                 minWeight |-> minW]
    /\ active' = egonetView(allNodes, allEdges, f, mode, minW)
    /\ UNCHANGED <<allNodes, allEdges>>
    /\ UNCHANGED <<matchVars, heapVars, loopVars, throttleVars, cacheVars>>

PathView(s, t, mode, minW, hp) ==
    /\ query' = [view |-> "path", startId |-> s, endId |-> t, mode |-> mode,
                 minWeight |-> minW, hopPenalty |-> hp]
    /\ active' = pathView(allNodes, allEdges, s, t, mode, minW, hp)
    /\ UNCHANGED <<allNodes, allEdges>>
    /\ UNCHANGED <<matchVars, heapVars, loopVars, throttleVars, cacheVars>>

\* One evaluation of the memo per behaviour: the views are functions of the
\* snapshot and the parameters alone, so a second evaluation shows nothing
\* a first one does not.
QueryEgonet ==
    /\ query = NoQuery
    /\ \E f \in QueryIds, mode \in EvidenceMode, minW \in MinWeights :
          EgonetView(f, mode, minW)

QueryPath ==
    /\ query = NoQuery
    /\ \E s, t \in QueryIds, mode \in EvidenceMode, minW \in MinWeights,
          hp \in HopPenalties :
          PathView(s, t, mode, minW, hp)

Next == QueryEgonet \/ QueryPath

Spec == Init /\ [][Next]_vars

(***************************************************************************)
(* Reference notions the claims are stated in, written from section 4.1:   *)
(* they use none of the operators above.                                   *)
(***************************************************************************)
IsEgonet == query.view = "egonet"

IsPath == query.view = "path"

Ids == NodeIds(allNodes)

EdgeIdx == 1..Len(allEdges)

RefDisplay(e, mode) ==
    CASE mode = "instr" -> e.w_instr
      [] mode = "credit" -> e.w_credit
      [] OTHER -> e.w_instr + e.w_credit

RefAllowed(e, mode, minW) == RefDisplay(e, mode) >= minW

\* the edge joins u and v, in either direction
Joins(e, u, v) ==
    \/ e.source = u /\ e.target = v
    \/ e.source = v /\ e.target = u

\* C1: a non-empty path returned by shortestPath starts with startId, ends
\* with endId, and each of its hops is carried by an edge, in either
\* direction, whose displayStrength is at least minWeight.
C1_PathSound ==
    (IsPath /\ active.path # <<>>) =>
        LET p == active.path IN
        /\ p[1] = query.startId
        /\ p[Len(p)] = query.endId
        /\ \A i \in 1..(Len(p) - 1) :
              \E j \in EdgeIdx :
                 /\ Joins(allEdges[j], p[i], p[i + 1])
                 /\ RefAllowed(allEdges[j], query.mode, query.minWeight)

\* a path of two hops was returned
C1_Witness == IsPath /\ Len(active.path) = 3

\* the traversal strength: instrument evidence counts twice in mode "both"
RefCostStrength(e, mode) ==
    CASE mode = "instr" -> e.w_instr
      [] mode = "credit" -> e.w_credit
      [] OTHER -> 2 * e.w_instr + e.w_credit

\* 1 / (costStrength + 1) + hopPenalty, in units of 1 / CostScale
RefCost(e, mode, hp) ==
    (CostScale \div (RefCostStrength(e, mode) + 1)) + hp * (CostScale \div 4)

Min(S) == CHOOSE x \in S : \A y \in S : x <= y

\* the cheapest allowed edge joining u and v; Infinity when there is none
HopCost(u, v) ==
    Min({Infinity} \cup
        {RefCost(allEdges[j], query.mode, query.hopPenalty) :
           j \in {k \in EdgeIdx :
                    /\ Joins(allEdges[k], u, v)
                    /\ RefAllowed(allEdges[k], query.mode, query.minWeight)}})

Plus(x, y) == IF x = Infinity \/ y = Infinity THEN Infinity ELSE x + y

\* the cost of the walk p
RECURSIVE WalkCost(_)
WalkCost(p) ==
    IF Len(p) <= 1 THEN 0
    ELSE Plus(HopCost(p[1], p[2]), WalkCost(Tail(p)))

\* the cheapest walks from src of at most k hops (Bellman-Ford)
RECURSIVE Cheapest(_, _)
Cheapest(src, k) ==
    IF k = 0 THEN [v \in Ids |-> IF v = src THEN 0 ELSE Infinity]
    ELSE LET d == Cheapest(src, k - 1)
         IN [v \in Ids |->
               Min({d[v]} \cup {Plus(d[u], HopCost(u, v)) : u \in Ids})]

\* a cheapest walk needs no node twice: at most |nodes| - 1 hops
BestCost(src, dst) == Cheapest(src, Cardinality(Ids) - 1)[dst]

\* C2: for distinct startId and endId, the non-empty path returned costs
\* as little as the cheapest walk from startId to endId over allowed edges,
\* each hop costing 1/(costStrength + 1) + hopPenalty on its cheapest edge.
C2_PathCheapest ==
    (IsPath /\ active.path # <<>> /\ query.startId # query.endId) =>
        WalkCost(active.path) = BestCost(query.startId, query.endId)

\* two hops were returned although an allowed edge joins startId and endId
C2_Witness ==
    /\ IsPath
    /\ Len(active.path) = 3
    /\ HopCost(query.startId, query.endId) < Infinity

\* C3 (as claimed): for distinct startId and endId of the node set, the
\* path returned is empty exactly when no walk over allowed edges leads from
\* startId to endId.
C3_EmptyIffUnreachable ==
    (/\ IsPath
     /\ query.startId # query.endId
     /\ query.startId \in Ids
     /\ query.endId \in Ids) =>
        (active.path = <<>> <=>
            BestCost(query.startId, query.endId) = Infinity)

\* C4: shortestPath(X, X, ...) is the one-element path <<X>> for a node X.
C4_SamePoint ==
    (IsPath /\ query.startId = query.endId /\ query.startId \in Ids) =>
        active.path = <<query.startId>>

\* startId = endId is a node that allowed edges touch
C4_Witness ==
    /\ IsPath
    /\ query.startId = query.endId
    /\ query.startId \in Ids
    /\ \E v \in Ids : HopCost(query.startId, v) < Infinity
    /\ active.path = <<query.startId>>

\* C5: the path is empty when startId or endId is no node id, the empty
\* node set included.
C5_AbsentEndpoint ==
    (IsPath /\ (query.startId \notin Ids \/ query.endId \notin Ids)) =>
        active.path = <<>>

\* both endpoints absent and equal, on a snapshot that has allowed edges
C5_Witness ==
    /\ IsPath
    /\ query.startId \notin Ids
    /\ query.endId = query.startId
    /\ \E u, v \in Ids : HopCost(u, v) < Infinity
    /\ active.path = <<>>

\* the focus is among the nodes of the view
HasFocus == \E i \in 1..Len(active.nodes) : active.nodes[i].id = query.focusId

\* the allowed edges that touch the focus
FocusEdges ==
    {j \in EdgeIdx :
       /\ RefAllowed(allEdges[j], query.mode, query.minWeight)
       /\ (allEdges[j].source = query.focusId \/ allEdges[j].target = query.focusId)}

\* C6 (as claimed): for every focusId the egonet's node list holds a node
\* whose id is focusId.
C6_FocusAlways == IsEgonet => HasFocus

\* C6 (amended): the egonet's node list holds the focus whenever focusId is
\* the id of a node, also when no allowed edge touches it.
C6_FocusWhenNode == (IsEgonet /\ query.focusId \in Ids) => HasFocus

\* the focus is a node of a snapshot with edges, none of them touching it
\* is allowed, and the view is the focus alone
C6_Witness ==
    /\ IsEgonet
    /\ query.focusId \in Ids
    /\ allEdges # <<>>
    /\ FocusEdges = {}
    /\ active.nodes = <<NodeDatum(query.focusId)>>

\* the focus and the far ends of the allowed edges touching it
RefNeigh ==
    {query.focusId} \cup
    {allEdges[j].source : j \in FocusEdges} \cup
    {allEdges[j].target : j \in FocusEdges}

\* C7: the egonet is the induced subgraph on the neighbourhood: its nodes
\* are the nodes that are the focus or the far end of an allowed edge
\* touching it (threshold inclusive), its edges the allowed edges with both
\* ends among these nodes.
C7_EgonetInduced ==
    IsEgonet =>
        /\ active.nodes = SelectSeq(allNodes, LAMBDA n : n.id \in RefNeigh)
        /\ active.edges =
              SelectSeq(allEdges,
                        LAMBDA e : /\ RefAllowed(e, query.mode, query.minWeight)
                                   /\ e.source \in RefNeigh \cap Ids
                                   /\ e.target \in RefNeigh \cap Ids)

\* the view holds an edge between two neighbours that does not touch the
\* focus, and an edge whose strength is exactly minWeight
C7_Witness ==
    /\ IsEgonet
    /\ \E i \in 1..Len(active.edges) :
          /\ active.edges[i].source # query.focusId
          /\ active.edges[i].target # query.focusId
          /\ active.edges[i].source # active.edges[i].target
    /\ \E i \in 1..Len(active.edges) :
          RefDisplay(active.edges[i], query.mode) = query.minWeight

\* the edge joins two consecutive nodes of the path p
OnPath(e, p) == \E i \in 1..(Len(p) - 1) : Joins(e, p[i], p[i + 1])

\* C8 (as claimed): the path view's nodes are the nodes on the path, its
\* edges the allowed edges joining two consecutive nodes of the path, all
\* parallel ones included and no other edge.
C8_PathSubgraphExact ==
    IsPath =>
        /\ active.nodes =
              SelectSeq(allNodes, LAMBDA n : n.id \in Range(active.path))
        /\ active.edges =
              SelectSeq(allEdges,
                        LAMBDA e : /\ RefAllowed(e, query.mode, query.minWeight)
                                   /\ OnPath(e, active.path))

\* the view the same query yields at the threshold minW
ViewAt(minW) ==
    IF IsEgonet
    THEN egonetView(allNodes, allEdges, query.focusId, query.mode, minW)
    ELSE pathView(allNodes, allEdges, query.startId, query.endId, query.mode,
                  minW, query.hopPenalty)

\* every node and every edge of the view v is in the view w
SubView(v, w) ==
    /\ Range(v.nodes) \subseteq Range(w.nodes)
    /\ Range(v.edges) \subseteq Range(w.edges)

\* C9 (as claimed): the view at a threshold is contained, nodes and edges,
\* in the view of the same query at every lower threshold, for the egonet
\* view and for the path view.
C9_Monotone ==
    (IsEgonet \/ IsPath) =>
        \A lo \in MinWeights : lo < query.minWeight => SubView(active, ViewAt(lo))

\* C9 (amended): the egonet view at a threshold is contained, nodes and
\* edges, in the egonet view of the same focus and mode at every lower
\* threshold.
C9_EgonetMonotone ==
    IsEgonet =>
        \A lo \in MinWeights : lo < query.minWeight => SubView(active, ViewAt(lo))

\* an egonet of two nodes that has three nodes at a lower threshold
C9_Witness ==
    /\ IsEgonet
    /\ Len(active.nodes) = 2
    /\ \E lo \in MinWeights :
          /\ lo < query.minWeight
          /\ Len(ViewAt(lo).nodes) > Len(active.nodes)

\* minWeight is above the displayStrength of every edge
AboveAll ==
    \A j \in EdgeIdx : query.minWeight > RefDisplay(allEdges[j], query.mode)

\* C10 (as claimed): with minWeight above every edge's displayStrength the
\* egonet view is the focus alone and the path view holds just the queried
\* start and end nodes, both without edges (the queried ids being node ids).
C10_Collapse ==
    /\ (IsEgonet /\ AboveAll /\ query.focusId \in Ids) =>
          /\ NodeIds(active.nodes) = {query.focusId}
          /\ active.edges = <<>>
    /\ (IsPath /\ AboveAll /\ query.startId \in Ids /\ query.endId \in Ids) =>
          /\ NodeIds(active.nodes) = {query.startId, query.endId}
          /\ active.edges = <<>>

\* C10 (amended): with minWeight above every edge's displayStrength no view
\* has an edge; the egonet view's nodes are the node whose id is focusId;
\* the path is <<startId>> when startId = endId is a node id and empty
\* otherwise, and the path view's nodes are the nodes on the path: none
\* for distinct startId and endId.
C10_CollapseExact ==
    /\ (IsEgonet /\ AboveAll) =>
          /\ active.nodes = SelectSeq(allNodes, LAMBDA n : n.id = query.focusId)
          /\ active.edges = <<>>
    /\ (IsPath /\ AboveAll) =>
          /\ active.path = IF query.startId = query.endId /\ query.startId \in Ids
                           THEN <<query.startId>> ELSE <<>>
          /\ active.nodes =
                SelectSeq(allNodes, LAMBDA n : n.id \in Range(active.path))
          /\ active.edges = <<>>

\* a path query for two distinct nodes of a snapshot with edges, all of them
\* below minWeight
C10_Witness ==
    /\ IsPath
    /\ AboveAll
    /\ allEdges # <<>>
    /\ query.startId \in Ids
    /\ query.endId \in Ids
    /\ query.startId # query.endId
    /\ active.nodes = <<>>

(***************************************************************************)
(* SpecUI: the component.  The parameters viewMode, evidenceMode,          *)
(* minWeight, focusId, startId, endId are the fields of `query`; every     *)
(* setter is followed by the render that re-evaluates the memo `active`.   *)
(***************************************************************************)
\* line 377: the hop penalty the component passes, 0.25, in quarters
DefaultHopPenalty == 1

\* x || y on ids
orElse(x, y) == IF truthy(x) THEN x ELSE y

\* lines 361-380: the body of the memo
activeOf(nodes, edges, q) ==
    IF Len(nodes) = 0 THEN NoView
    ELSE IF q.viewMode = "egonet"
         THEN egonetView(nodes, edges, orElse(q.focusId, nodes[1].id),
                         q.evidenceMode, q.minWeight)
         ELSE pathView(nodes, edges, orElse(q.startId, nodes[1].id),
                       orElse(q.endId, nodes[1].id),
                       q.evidenceMode, q.minWeight, DefaultHopPenalty)

\* mutant: minWeight is missing from the dependency list
activeDepsNoThreshold(nodes, edges, q) ==
    <<nodes, edges, q.viewMode, q.focusId, q.startId, q.endId, q.evidenceMode>>

\* line 381: the dependency list of the memo
activeDeps(nodes, edges, q) ==
    <<nodes, edges, q.viewMode, q.focusId, q.startId, q.endId, q.evidenceMode,
      q.minWeight>>

\* useMemo: the body runs again when a dependency changed
useMemo(old, oldDeps, newDeps, nodes, edges, q) ==
    IF oldDeps = newDeps THEN old ELSE activeOf(nodes, edges, q)

\* snapshots of the component: w_credit mirrors w_instr, so that the three
\* evidence modes and the thresholds admit different edges
UILayouts ==
    { [ids |-> <<"a", "b", "c">>,
       ends |-> << <<"a", "b">>, <<"c", "b">>, <<"a", "c">> >>],
      [ids |-> <<"a", "b", "">>,
       ends |-> << <<"a", "b">>, <<"b", "a">>, <<"b", "">> >>] }

\* lines 604-615: both inputs keep minWeight at 1 or more
UIMinWeights == 1..MaxMinWeight

\* lines 302-308 and 325-351: the state after the snapshot has loaded; miles
\* and trane are the ids found by name, Null when no node has the name
InitUI ==
    /\ \E L \in UILayouts :
       \E wi \in [1..Len(L.ends) -> Weights] :
          /\ allNodes = [i \in 1..Len(L.ids) |-> NodeDatum(L.ids[i])]
          /\ allEdges = [i \in 1..Len(L.ends) |->
                           EdgeDatum(i, L.ends[i][1], L.ends[i][2], wi[i],
                                     MaxWeight - wi[i])]
    /\ \E miles, trane \in NodeIds(allNodes) \cup {Null} :
          query = [viewMode |-> "egonet", evidenceMode |-> "both",
                   minWeight |-> 1,
                   focusId |-> orElse(miles, orElse(allNodes[1].id, "")),
                   startId |-> orElse(miles, orElse(allNodes[1].id, "")),
                   endId |-> orElse(trane, orElse(allNodes[1].id, ""))]
    /\ active = activeOf(allNodes, allEdges, query)
    /\ MatchIdle /\ HeapIdle /\ LoopIdle /\ ThrottleIdle /\ CacheIdle

\* a setter and the render after it
SetParams(q) ==
    /\ query' = q
    /\ active' = useMemo(active, activeDeps(allNodes, allEdges, query),
                         activeDeps(allNodes, allEdges, q),
                         allNodes, allEdges, q)
    /\ UNCHANGED <<allNodes, allEdges>>
    /\ UNCHANGED <<matchVars, heapVars, loopVars, throttleVars, cacheVars>>

SetViewMode == \E v \in ViewMode : SetParams([query EXCEPT !.viewMode = v])

SetEvidenceMode ==
    \E m \in EvidenceMode : SetParams([query EXCEPT !.evidenceMode = m])

SetMinWeight ==
    \E w \in UIMinWeights : SetParams([query EXCEPT !.minWeight = w])

SetFocusId ==
    \E n \in NodeIds(allNodes) : SetParams([query EXCEPT !.focusId = n])

SetStartId ==
    \E n \in NodeIds(allNodes) : SetParams([query EXCEPT !.startId = n])

SetEndId ==
    \E n \in NodeIds(allNodes) : SetParams([query EXCEPT !.endId = n])

NextUI ==
    \/ SetViewMode
    \/ SetEvidenceMode
    \/ SetMinWeight
    \/ SetFocusId
    \/ SetStartId
    \/ SetEndId

SpecUI == InitUI /\ [][NextUI]_vars

\* C11: after any sequence of parameter changes the active view is the one
\* computed from the current parameters, and every edge in it is allowed
\* under the current evidence mode and the current minWeight.
C11_ActiveCurrent ==
    /\ active = activeOf(allNodes, allEdges, query)
    /\ \A i \in 1..Len(active.edges) :
          RefAllowed(active.edges[i], query.evidenceMode, query.minWeight)

\* the parameters have moved away from their initial values, and an edge
\* between two shown nodes that the initial parameters admit is not shown
C11_Witness ==
    /\ query.evidenceMode = "instr"
    /\ query.viewMode = "path"
    /\ active.edges # <<>>
    /\ \E i \in 1..Len(allEdges) :
          /\ RefAllowed(allEdges[i], "both", 1)
          /\ {allEdges[i].source, allEdges[i].target}
                \subseteq NodeIds(active.nodes)
          /\ \A j \in 1..Len(active.edges) : active.edges[j] # allEdges[i]

(***************************************************************************)
(* Direction of edges (Spec)                                               *)
(***************************************************************************)
\* the edge record with source and target exchanged
Swapped(e) == [e EXCEPT !.source = e.target, !.target = e.source]

\* the edge list with the edge of index j exchanged
SwapAt(edges, j) ==
    [i \in 1..Len(edges) |-> IF edges[i].id = j THEN Swapped(edges[i])
                             ELSE edges[i]]

\* the view of the current query on another edge list
ViewOn(edges) ==
    IF IsEgonet
    THEN egonetView(allNodes, edges, query.focusId, query.mode, query.minWeight)
    ELSE pathView(allNodes, edges, query.startId, query.endId, query.mode,
                  query.minWeight, query.hopPenalty)

SameButSwap(v, j) ==
    /\ v.nodes = active.nodes
    /\ v.path = active.path
    /\ v.edges = SwapAt(active.edges, j)

\* C12: exchanging source and target of any one edge changes neither the
\* egonet of any focus, nor the path returned for any start and end, nor the
\* path subgraph of that path, apart from the exchanged edge record itself.
C12_Undirected ==
    (IsEgonet \/ IsPath) =>
        \A j \in 1..Len(allEdges) : SameButSwap(ViewOn(SwapAt(allEdges, j)), j)

\* the same on snapshots whose ids hold no "__"
C12_UndirectedPlainIds ==
    ((IsEgonet \/ IsPath) /\ "a__b" \notin Ids) =>
        \A j \in 1..Len(allEdges) : SameButSwap(ViewOn(SwapAt(allEdges, j)), j)

(***************************************************************************)
(* SpecDangling: snapshots in which edges name ids that no node has.       *)
(* parseGraphML reads source and target off the edge element (lines 71-72) *)
(* and does not compare them with the node ids.                            *)
(***************************************************************************)
DanglingLayouts ==
    { [ids |-> <<"a", "b">>,
       ends |-> << <<"a", "zz">>, <<"zz", "b">>, <<"a", "b">> >>],
      [ids |-> <<"a", "b", "c">>,
       ends |-> << <<"a", "b">>, <<"b", "zz">>, <<"zz", "c">> >>],
      [ids |-> <<"a__b", "a">>,
       ends |-> << <<"a__b", "a">>, <<"a", "b__a">> >>],
      [ids |-> <<"a", "b">>,
       ends |-> << <<"a", "">>, <<"", "b">>, <<"zz", "zz">> >>] }

InitDangling ==
    /\ \E L \in DanglingLayouts :
       \E wi, wc \in [1..Len(L.ends) -> Weights] :
          /\ allNodes = [i \in 1..Len(L.ids) |-> NodeDatum(L.ids[i])]
          /\ allEdges = [i \in 1..Len(L.ends) |->
                           EdgeDatum(i, L.ends[i][1], L.ends[i][2], wi[i], wc[i])]
    /\ query = NoQuery
    /\ active = NoView
    /\ MatchIdle /\ HeapIdle /\ LoopIdle /\ ThrottleIdle /\ CacheIdle

SpecDangling == InitDangling /\ [][Next]_vars

Dangling(e) == e.source \notin Ids \/ e.target \notin Ids

\* C13: an edge with an endpoint that is no node id is in the edge list of
\* no derived view, and no returned node or path entry is such an endpoint.
C13_DanglingAbsent ==
    (IsEgonet \/ IsPath) =>
        /\ \A i \in 1..Len(active.edges) : ~Dangling(active.edges[i])
        /\ \A i \in 1..Len(active.nodes) : active.nodes[i].id \in Ids
        /\ \A i \in 1..Len(active.path) : active.path[i] \in Ids

\* the same on snapshots whose ids hold no "__"
C13_DanglingAbsentPlainIds ==
    "a__b" \notin Ids => C13_DanglingAbsent

(***************************************************************************)
(* SpecMatch: the name matcher.  A string is the sequence of its           *)
(* characters.                                                             *)
(***************************************************************************)
MaxMatchNodes == 2
MaxLimit == 2

\* line 89: limit = 12
DefaultLimit == 12

Whitespace == {" "}

\* String.prototype.toLowerCase, character by character
toLowerCase(s) ==
    [i \in 1..Len(s) |-> CASE s[i] = "A" -> "a"
                           [] s[i] = "B" -> "b"
                           [] OTHER -> s[i]]

\* String.prototype.trim
RECURSIVE trim(_)
trim(s) ==
    IF s = <<>> THEN s
    ELSE IF Head(s) \in Whitespace THEN trim(Tail(s))
    ELSE IF s[Len(s)] \in Whitespace THEN trim(SubSeq(s, 1, Len(s) - 1))
    ELSE s

\* lines 85-87
normalize(s) == toLowerCase(trim(s))

startsWith(s, t) == Len(t) <= Len(s) /\ SubSeq(s, 1, Len(t)) = t

includes(s, t) ==
    \E k \in 0..(Len(s) - Len(t)) : SubSeq(s, k + 1, k + Len(t)) = t

\* Array.prototype.slice(0, end)
slice0(arr, end) ==
    LET k == IF end < 0 THEN (IF Len(arr) + end < 0 THEN 0 ELSE Len(arr) + end)
             ELSE IF end > Len(arr) THEN Len(arr) ELSE end
    IN SubSeq(arr, 1, k)

\* lines 94-98: the loop over nodes[i..], with the two lists collected so far
RECURSIVE matchLoop(_, _, _, _, _)
matchLoop(nodes, i, t, starts, contains) ==
    IF i > Len(nodes) THEN starts \o contains
    ELSE LET nm == normalize(nodes[i].name)
         IN IF startsWith(nm, t)
            THEN matchLoop(nodes, i + 1, t, Append(starts, nodes[i]), contains)
            ELSE IF includes(nm, t)
                 THEN matchLoop(nodes, i + 1, t, starts,
                                Append(contains, nodes[i]))
                 ELSE matchLoop(nodes, i + 1, t, starts, contains)

\* mutant: line 91 is missing, the empty query matches every name
topMatchesAllOnEmpty(nodes, q, limit) ==
    slice0(matchLoop(nodes, 1, normalize(q), <<>>, <<>>), limit)

\* lines 89-100
topMatches(nodes, q, limit) ==
    IF normalize(q) = <<>> THEN <<>>
    ELSE slice0(matchLoop(nodes, 1, normalize(q), <<>>, <<>>), limit)

NamedNode(id, name) == [id |-> id, name |-> name]

\* names and queries: blanks at either end and inside, both cases, names
\* that start with, hold or lack a query
NamePool ==
    { <<>>, <<" ">>, <<"a">>, <<"B">>, <<"a", "B">>, <<"B", "a">>,
      <<" ", "A">>, <<"b", " ">>, <<"a", " ", "b">>, <<"b", "A", "b">> }

QueryPool ==
    { <<>>, <<" ">>, <<" ", " ">>, <<"a">>, <<"A", " ">>, <<" ", "b">>,
      <<"a", "b">>, <<"B", "a">>, <<" ", "B">>, <<"a", " ">> }

Limits == (0..MaxLimit) \cup {DefaultLimit}

InitMatch ==
    /\ \E n \in 0..MaxMatchNodes :
       \E names \in [1..n -> NamePool] :
          allNodes = [i \in 1..n |-> NamedNode(i, names[i])]
    /\ query = NoQuery
    /\ matches = <<>>
    /\ allEdges = Null /\ active = Null
    /\ HeapIdle /\ LoopIdle /\ ThrottleIdle /\ CacheIdle

TopMatches ==
    /\ query = NoQuery
    /\ \E q \in QueryPool, limit \in Limits :
          /\ query' = [view |-> "search", q |-> q, limit |-> limit]
          /\ matches' = topMatches(allNodes, q, limit)
    /\ UNCHANGED <<allNodes, allEdges, active>>
    /\ UNCHANGED <<heapVars, loopVars, throttleVars, cacheVars>>

NextMatch == TopMatches

SpecMatch == InitMatch /\ [][NextMatch]_vars

\* the reference of section 4.6, written without the operators above
IsBlank(c) == c = " "

RefLower(c) == IF c = "A" THEN "a" ELSE IF c = "B" THEN "b" ELSE c

\* the characters between the first and the last non-blank one, lower-cased
RefNorm(s) ==
    LET solid == {i \in 1..Len(s) : ~IsBlank(s[i])}
        lo == CHOOSE i \in solid : \A j \in solid : i <= j
        hi == CHOOSE i \in solid : \A j \in solid : j <= i
    IN IF solid = {} THEN <<>>
       ELSE [i \in 1..(hi - lo + 1) |-> RefLower(s[lo + i - 1])]

RefOccursAt(s, t, k) ==
    /\ k + Len(t) - 1 <= Len(s)
    /\ \A i \in 1..Len(t) : s[k + i - 1] = t[i]

RefStarts(n) == RefOccursAt(RefNorm(n.name), RefNorm(query.q), 1)

RefContains(n) ==
    /\ ~RefStarts(n)
    /\ \E k \in 1..Len(RefNorm(n.name)) :
          RefOccursAt(RefNorm(n.name), RefNorm(query.q), k)

RefRanked == SelectSeq(allNodes, RefStarts) \o SelectSeq(allNodes, RefContains)

RefTopMatches ==
    IF RefNorm(query.q) = <<>> THEN <<>>
    ELSE [i \in 1..Min({query.limit, Len(RefRanked)}) |-> RefRanked[i]]

IsSearch == query.view = "search"

\* C14: topMatches returns the empty list for a query that is empty after
\* trimming; otherwise the nodes whose normalized name starts with the
\* normalized query, in input order, then those whose normalized name holds
\* it without starting with it, in input order, cut to the first limit.
C14_TopMatches == IsSearch => matches = RefTopMatches

\* a result that has a prefix match after a containing match of the input,
\* and is cut by the limit
C14_Witness ==
    /\ IsSearch
    /\ Len(matches) = 1
    /\ Len(allNodes) = 2
    /\ matches[1] = allNodes[2]
    /\ RefContains(allNodes[1])
    /\ RefStarts(allNodes[2])
    /\ query.q # RefNorm(query.q)
    /\ allNodes[2].name # RefNorm(allNodes[2].name)

(***************************************************************************)
(* SpecHeap: a MinHeap under any sequence of push and pop                  *)
(***************************************************************************)
MaxHeapSize == 4
MaxKey == 2

\* what pop() returns on an empty heap
Undefined == [undefined |-> TRUE]

\* lines 128-137: pop() on any heap, the value returned and the array left
pop(a) ==
    IF Len(a) = 0 THEN [value |-> Undefined, a |-> a]
    ELSE [value |-> popTop(a), a |-> popRest(a)]

\* entries { id, key }; two ids tell entries of one key apart
HeapEntries == [id : {"x", "y"}, key : 0..MaxKey]

EmptyBag == [e \in HeapEntries |-> 0]

InitHeap ==
    /\ heap = <<>>
    /\ pending = EmptyBag
    /\ popped = [op |-> "new"]
    /\ EngineIdle /\ MatchIdle /\ LoopIdle /\ ThrottleIdle /\ CacheIdle

HeapPush ==
    /\ Len(heap) < MaxHeapSize
    /\ \E x \in HeapEntries :
          /\ heap' = push(heap, x)
          /\ pending' = [pending EXCEPT ![x] = @ + 1]
          /\ popped' = [op |-> "push"]
    /\ UNCHANGED <<engineVars, matchVars, loopVars, throttleVars, cacheVars>>

HeapPop ==
    /\ heap' = pop(heap).a
    /\ popped' = [op |-> "pop", value |-> pop(heap).value]
    /\ pending' = IF pop(heap).value = Undefined THEN pending
                  ELSE [pending EXCEPT ![pop(heap).value] = @ - 1]
    /\ UNCHANGED <<engineVars, matchVars, loopVars, throttleVars, cacheVars>>

NextHeap == HeapPush \/ HeapPop

SpecHeap == InitHeap /\ [][NextHeap]_vars

\* how often the entry e is in the array
Occurrences(e) == Cardinality({i \in 1..Len(heap) : heap[i] = e})

HeapOrder ==
    \A i \in 2..Len(heap) : heap[i \div 2].key <= heap[i].key

\* the array holds exactly the entries pushed and not yet popped
HeapHoldsPending == \A e \in HeapEntries : Occurrences(e) = pending[e]

NonePending == \A e \in HeapEntries : pending[e] = 0

\* a step that is a pop returns undefined exactly when nothing is pending,
\* and otherwise a pending entry of least key, one occurrence of which goes
PopReturnsMin ==
    popped'.op = "pop" =>
        /\ popped'.value = Undefined <=> NonePending
        /\ popped'.value # Undefined =>
              /\ pending[popped'.value] > 0
              /\ \A e \in HeapEntries :
                    pending[e] > 0 => popped'.value.key <= e.key
              /\ pending' = [pending EXCEPT ![popped'.value] = @ - 1]

\* C15: MinHeap is a min-priority queue: pop returns undefined if and only
\* if every pushed entry has been popped, and otherwise returns and removes
\* one occurrence of an entry of minimum key among those pushed and not yet
\* popped; the array satisfies the heap order after every operation.
C15_MinHeap ==
    /\ [](HeapOrder /\ HeapHoldsPending)
    /\ [][PopReturnsMin]_vars

\* a pop has returned an entry while an equal entry and a larger one stay
C15_Witness ==
    /\ popped.op = "pop"
    /\ popped.value # Undefined
    /\ pending[popped.value] > 0
    /\ Len(heap) = MaxHeapSize - 1
    /\ \E e \in HeapEntries : pending[e] > 0 /\ e.key > popped.value.key

\* a pop on an empty heap after entries have been pushed and popped
C15_WitnessUndefined ==
    /\ popped.op = "pop"
    /\ popped.value = Undefined

(***************************************************************************)
(* SpecLoop: shortestPath past its two early returns, one iteration of the *)
(* main loop a step.  `search` holds dist, prev, heap and visited; `order` *)
(* records every pop: the entry, the distance of its node at that moment   *)
(* and whether the entry was skipped.                                      *)
(***************************************************************************)
\* shortestPath has not returned yet
NotReturned == [returned |-> FALSE]

LoopLayouts ==
    { [ids |-> <<"a", "b", "c">>,
       ends |-> << <<"a", "b">>, <<"c", "b">>, <<"a", "c">> >>],
      [ids |-> <<"a", "b", "">>,
       ends |-> << <<"a", "b">>, <<"b", "a">>, <<"b", "">> >>] }

\* lines 174-183 for the call in `query`
adjOf(q) ==
    buildAdj([n \in NodeIds(allNodes) |-> <<>>], allEdges, 1, q.mode,
             q.minWeight, q.hopPenalty)

\* lines 170-196: a call with startId and endId two different node ids
InitLoop ==
    /\ \E L \in LoopLayouts :
       \E wi, wc \in [1..Len(L.ends) -> Weights] :
          /\ allNodes = [i \in 1..Len(L.ids) |-> NodeDatum(L.ids[i])]
          /\ allEdges = [i \in 1..Len(L.ends) |->
                           EdgeDatum(i, L.ends[i][1], L.ends[i][2], wi[i], wc[i])]
    /\ \E s, t \in NodeIds(allNodes), mode \in EvidenceMode,
          minW \in MinWeights, hp \in HopPenalties :
          /\ s # t
          /\ query = [view |-> "path", startId |-> s, endId |-> t,
                      mode |-> mode, minWeight |-> minW, hopPenalty |-> hp]
    /\ search = searchInit(allNodes, query.startId)
    /\ order = <<>>
    /\ active = NotReturned
    /\ MatchIdle /\ HeapIdle /\ ThrottleIdle /\ CacheIdle

\* lines 198-216: one iteration
LoopStep ==
    /\ active = NotReturned
    /\ ~search.stopped
    /\ Len(search.heap) > 0
    /\ search' = loopStep(search, adjOf(query), query.endId)
    /\ order' = Append(order,
                       [id |-> popTop(search.heap).id,
                        key |-> popTop(search.heap).key,
                        dist |-> MapGet(search.dist, popTop(search.heap).id,
                                        Infinity),
                        skipped |-> popTop(search.heap).id \in search.visited])
    /\ UNCHANGED <<allNodes, allEdges, query, active>>
    /\ UNCHANGED <<matchVars, heapVars, throttleVars, cacheVars>>

\* lines 218-227 and 378-379: the loop has ended, the path is returned
LoopReturn ==
    /\ active = NotReturned
    /\ search.stopped \/ Len(search.heap) = 0
    /\ active' = pathViewOf(allNodes, allEdges,
                            resultOf(search, query.startId, query.endId),
                            query.mode, query.minWeight)
    /\ UNCHANGED <<allNodes, allEdges, query, search, order>>
    /\ UNCHANGED <<matchVars, heapVars, throttleVars, cacheVars>>

NextLoop == LoopStep \/ LoopReturn

SpecLoop == InitLoop /\ [][NextLoop]_vars

\* the pops that finalized a node, in order
Finalized == SelectSeq(order, LAMBDA o : ~o.skipped)

FinalizedInOrder ==
    /\ \A i, j \in 1..Len(Finalized) :
          i < j => /\ Finalized[i].dist <= Finalized[j].dist
                   /\ Finalized[i].id # Finalized[j].id
    /\ search.visited = {Finalized[i].id : i \in 1..Len(Finalized)}

\* a step that pops an entry of a finalized node changes the heap alone
SkipWithoutEffect ==
    (Len(search.heap) > 0 /\ search.heap[1].id \in search.visited) =>
        /\ search'.dist = search.dist
        /\ search'.prev = search.prev
        /\ search'.visited = search.visited
        /\ search'.stopped = search.stopped

FinalizedFrozen ==
    \A n \in search.visited :
        /\ n \in search'.visited
        /\ MapGet(search'.dist, n, Infinity) = MapGet(search.dist, n, Infinity)
        /\ MapGet(search'.prev, n, Null) = MapGet(search.prev, n, Null)

StopsAtEnd == query.endId \in search.visited => UNCHANGED <<search, order>>

\* C16: nodes are finalized in non-decreasing order of tentative distance
\* and each at most once; a popped entry of a finalized node is skipped
\* without effect; the distance and predecessor of a finalized node never
\* change; once endId is finalized no further node is finalized or relaxed.
C16_Finalization ==
    /\ []FinalizedInOrder
    /\ [][SkipWithoutEffect /\ FinalizedFrozen /\ StopsAtEnd]_vars

\* the loop has stopped at endId after three nodes at growing distances
\* were finalized and an entry of a finalized node was skipped
C16_Witness ==
    /\ search.stopped
    /\ \E i \in 1..Len(order) : order[i].skipped
    /\ Len(Finalized) = 3
    /\ Finalized[2].dist < Finalized[3].dist

(***************************************************************************)
(* Predecessor links (SpecLoop)                                            *)
(***************************************************************************)
Finite(n) == MapGet(search.dist, n, Infinity) < Infinity

PrevOf(n) == MapGet(search.prev, n, Null)

\* the node k predecessor links up from n, Null past the root
RECURSIVE Ancestor(_, _)
Ancestor(n, k) ==
    IF k = 0 THEN n
    ELSE IF Ancestor(n, k - 1) = Null THEN Null
    ELSE PrevOf(Ancestor(n, k - 1))

Reached == {n \in DOMAIN search.dist : Finite(n)}

\* the links form a forest rooted at startId
Forest ==
    /\ PrevOf(query.startId) = Null
    /\ \A n \in Reached \ {query.startId} : PrevOf(n) \in search.visited
    /\ \A n \in Reached :
          \E k \in 0..(Len(allNodes) - 1) :
             /\ Ancestor(n, k) = query.startId
             /\ \A i, j \in 0..k : i # j => Ancestor(n, i) # Ancestor(n, j)

Returned == active # NotReturned

\* the path returned for a reached endId runs from startId to endId
\* without a repeated node
Reconstruction ==
    (Returned /\ Finite(query.endId)) =>
        /\ active.path # <<>>
        /\ active.path[1] = query.startId
        /\ active.path[Len(active.path)] = query.endId
        /\ \A i, j \in 1..Len(active.path) :
              i # j => active.path[i] # active.path[j]

\* C19: the predecessor links always form a forest rooted at startId, the
\* predecessor of every reached node other than startId being finalized
\* and that of startId null; so whenever the distance of endId is finite
\* the returned path has no repeated node and is not [].
C19_PredecessorForest == Forest /\ Reconstruction

\* the first half alone
C19_ForestAlone == Forest

\* the second half on snapshots without an empty id
C19_ReconstructionNonEmptyIds == "" \notin Ids => Reconstruction

(***************************************************************************)
(* SpecThrottle: one warm instance of the verifyEdge function              *)
(* (src/netlify/functions/verifyEdge.js).  Handler invocations run         *)
(* concurrently on one event loop and share lastCallMs; each calls         *)
(* fetchJson again and again, one call after the other.  Time is in        *)
(* milliseconds and advances in ticks.                                     *)
(***************************************************************************)
MaxTicks == 6
MaxRequests == 3
TickMs == 400

\* line 47: throttle(1200)
MinIntervalMs == 1200

\* Date.now() when the instance starts is far past lastCallMs = 0
StartMs == MinIntervalMs

Handlers == {"h1", "h2"}

Max(x, y) == IF x >= y THEN x ELSE y

\* line 16
throttleWait(nowMs, last, minIntervalMs) ==
    Max(0, minIntervalMs - (nowMs - last))

Idle == [at |-> "idle", wakeAt |-> 0]

InitThrottle ==
    /\ now = StartMs
    /\ lastCallMs = 0
    /\ pc = [h \in Handlers |-> Idle]
    /\ requests = <<>>
    /\ EngineIdle /\ MatchIdle /\ HeapIdle /\ LoopIdle /\ CacheIdle

Sleeping == {h \in Handlers : pc[h].at = "sleeping"}

\* lines 18 and 48: throttle sets lastCallMs and returns, fetchJson goes on
\* to fetch in the same turn of the event loop
StartRequest(h) ==
    /\ lastCallMs' = now
    /\ requests' = Append(requests, [at |-> now, by |-> h])
    /\ pc' = [pc EXCEPT ![h] = [at |-> "fetching", wakeAt |-> 0]]

\* lines 45-47 and 14-18: fetchJson calls throttle, which either goes to
\* sleep or, with nothing to wait for, lets the request start at once
CallThrottle(h) ==
    /\ pc[h].at = "idle"
    /\ Len(requests) + Cardinality(Sleeping) < MaxRequests
    /\ IF throttleWait(now, lastCallMs, MinIntervalMs) > 0
       THEN /\ pc' = [pc EXCEPT ![h] =
                        [at |-> "sleeping",
                         wakeAt |-> now + throttleWait(now, lastCallMs,
                                                       MinIntervalMs)]]
            /\ UNCHANGED <<lastCallMs, requests>>
       ELSE StartRequest(h)
    /\ UNCHANGED now
    /\ UNCHANGED <<engineVars, matchVars, heapVars, loopVars, cacheVars>>

\* line 17: the timer fires, not before it is due
TimerFires(h) ==
    /\ pc[h].at = "sleeping"
    /\ now >= pc[h].wakeAt
    /\ StartRequest(h)
    /\ UNCHANGED now
    /\ UNCHANGED <<engineVars, matchVars, heapVars, loopVars, cacheVars>>

\* lines 48-55: the response has arrived
FetchDone(h) ==
    /\ pc[h].at = "fetching"
    /\ pc' = [pc EXCEPT ![h] = Idle]
    /\ UNCHANGED <<now, lastCallMs, requests>>
    /\ UNCHANGED <<engineVars, matchVars, heapVars, loopVars, cacheVars>>

Tick ==
    /\ now < StartMs + MaxTicks * TickMs
    /\ now' = now + TickMs
    /\ UNCHANGED <<lastCallMs, pc, requests>>
    /\ UNCHANGED <<engineVars, matchVars, heapVars, loopVars, cacheVars>>

Calls == \E h \in Handlers : CallThrottle(h)

Timers == \E h \in Handlers : TimerFires(h)

Fetches == \E h \in Handlers : FetchDone(h)

NextThrottle == Calls \/ Timers \/ Fetches \/ Tick

SpecThrottle == InitThrottle /\ [][NextThrottle]_vars

\* C17: any two outbound requests of one warm instance start at least the
\* throttle interval apart, whatever the interleaving of the invocations.
C17_Throttled ==
    \A i, j \in 1..Len(requests) :
        i < j => requests[j].at - requests[i].at >= MinIntervalMs

\* the same for two requests of one invocation
C17_ThrottledPerHandler ==
    \A i, j \in 1..Len(requests) :
        (i < j /\ requests[i].by = requests[j].by) =>
            requests[j].at - requests[i].at >= MinIntervalMs

(***************************************************************************)
(* SpecCache: the verifyEdge handler and its file cache, one invocation a  *)
(* step.  A string is the sequence of its characters; the prefix           *)
(* "verifyEdge", the decimal form of limit and the suffix ".json" each     *)
(* count as one character.                                                 *)
(***************************************************************************)
MaxInvocations == 2

\* line 76: Number(qs.limit || 6), Math.min(20, ...), Math.max(1, ...)
DefaultVerifyLimit == 6
MaxVerifyLimit == 20
MinVerifyLimit == 1

\* qs.limit is missing
NoLimit == -1

\* line 76
limitOf(raw) ==
    IF raw = NoLimit THEN DefaultVerifyLimit
    ELSE Max(MinVerifyLimit, IF raw > MaxVerifyLimit THEN MaxVerifyLimit ELSE raw)

\* line 82: `verifyEdge_${a}_${b}_${limit}`
cacheKey(a, b, limit) ==
    <<"verifyEdge", "_">> \o a \o <<"_">> \o b \o <<"_", ToString(limit)>>

\* characters outside [a-zA-Z0-9_-]
UnsafeChars == {" ", "/"}

\* lines 25-27
cachePath(key) ==
    [i \in 1..Len(key) |-> IF key[i] \in UnsafeChars THEN "_" ELSE key[i]]
       \o <<".json">>

NoFile == [missing |-> TRUE]

\* lines 28-37: null for a missing or unreadable file and for one older
\* than maxAgeMs
cacheGet(files, key) ==
    LET f == MapGet(files, cachePath(key), NoFile)
    IN IF f = NoFile THEN NoFile
       ELSE IF ~f.fresh THEN NoFile
       ELSE f.value

\* lines 38-43, the write succeeding
cacheSet(files, key, value) ==
    MapSet(files, cachePath(key), [value |-> value, fresh |-> TRUE])

\* the query strings: missing and blank-padded ids, ids that hold "_",
\* ids that hold a character cachePath replaces
ArtistAPool == { <<>>, <<"x">>, <<" ", "x">>, <<"x", "_", "y">>, <<"x", "/", "y">> }

ArtistBPool == { <<"z">>, <<"y", "_", "z">> }

RawLimits == {NoLimit, 0, 25}

\* what MusicBrainz answers: the browse request fails, or the matches found
MbFails == "fails"

MbOutcomes == {MbFails, "no matches", "one match"}

NoResponse == [n |-> 0, status |-> 0]

InitCache ==
    /\ cache = <<>>
    /\ computed = {}
    /\ response = NoResponse
    /\ EngineIdle /\ MatchIdle /\ HeapIdle /\ LoopIdle /\ ThrottleIdle

\* lines 78-80
BadRequest(a, b, limit) ==
    /\ response' = [n |-> response.n + 1, status |-> 400,
                    triple |-> <<a, b, limit>>, fromCache |-> FALSE,
                    mbRequests |-> 0]
    /\ UNCHANGED <<cache, computed>>

\* lines 83-86
ServeCached(a, b, limit, cached) ==
    /\ response' = [n |-> response.n + 1, status |-> 200,
                    triple |-> <<a, b, limit>>, fromCache |-> TRUE,
                    mbRequests |-> 0, body |-> cached]
    /\ UNCHANGED <<cache, computed>>

\* lines 97 and 133-135: the browse request throws
ServerError(a, b, limit) ==
    /\ response' = [n |-> response.n + 1, status |-> 500,
                    triple |-> <<a, b, limit>>, fromCache |-> FALSE,
                    mbRequests |-> 1]
    /\ UNCHANGED <<cache, computed>>

\* lines 97-132; written tells whether writeFileSync went through
Compute(a, b, limit, matched, written) ==
    LET out == [artistA |-> a, artistB |-> b, matches |-> matched]
    IN /\ cache' = IF written THEN cacheSet(cache, cacheKey(a, b, limit), out)
                   ELSE cache
       /\ computed' = computed \cup {[triple |-> <<a, b, limit>>, out |-> out]}
       /\ response' = [n |-> response.n + 1, status |-> 200,
                       triple |-> <<a, b, limit>>, fromCache |-> FALSE,
                       mbRequests |-> 1, body |-> out]

\* lines 71-136
handler(rawA, rawB, rawLimit, mb, written) ==
    LET a == trim(rawA)
        b == trim(rawB)
        limit == limitOf(rawLimit)
        cached == cacheGet(cache, cacheKey(a, b, limit))
    IN IF a = <<>> \/ b = <<>> THEN BadRequest(a, b, limit)
       ELSE IF cached # NoFile THEN ServeCached(a, b, limit, cached)
       ELSE IF mb = MbFails THEN ServerError(a, b, limit)
       ELSE Compute(a, b, limit, mb, written)

Handle ==
    /\ response.n < MaxInvocations
    /\ \E rawA \in ArtistAPool, rawB \in ArtistBPool, rawLimit \in RawLimits,
          mb \in MbOutcomes, written \in BOOLEAN :
          handler(rawA, rawB, rawLimit, mb, written)
    /\ UNCHANGED <<engineVars, matchVars, heapVars, loopVars, throttleVars>>

\* seven days pass for a file
Expire ==
    /\ \E f \in DOMAIN cache :
          /\ cache[f].fresh
          /\ cache' = [cache EXCEPT ![f].fresh = FALSE]
    /\ UNCHANGED <<computed, response>>
    /\ UNCHANGED <<engineVars, matchVars, heapVars, loopVars, throttleVars>>

NextCache == Handle \/ Expire

SpecCache == InitCache /\ [][NextCache]_vars

Answered == response.n > 0

\* the 200 results computed for the triple t
ComputedFor(t) == {c.out : c \in {d \in computed : d.triple = t}}

\* C18: a request answered from the cache issues no MusicBrainz request and
\* gets a result that an earlier 200 computation produced for the same
\* triple; 400 and 500 outcomes are neither served from nor written to the
\* cache.
C18_CacheExact ==
    /\ (Answered /\ response.fromCache) =>
          /\ response.mbRequests = 0
          /\ response.status = 200
          /\ response.body \in ComputedFor(response.triple)
    /\ \A f \in DOMAIN cache : cache[f].value \in {c.out : c \in computed}

\* the ids of a triple hold no "_" and no character that cachePath replaces
PlainIds(t) ==
    \A k \in {1, 2} : \A i \in 1..Len(t[k]) : t[k][i] \notin UnsafeChars \cup {"_"}

\* the same when every triple computed or asked for has plain ids
C18_CacheExactPlainIds ==
    ((\A c \in computed : PlainIds(c.triple))
        /\ (Answered => PlainIds(response.triple)))
    => C18_CacheExact

====
